---- MODULE Spec2Model ----
(***************************************************************************)
(* Model of src/embed/main.rs: the semantic-search FFI layer.              *)
(*                                                                         *)
(* State: the four process-wide statics (RUNTIME, DATABASE, EMBEDDER,      *)
(* CONFIG), the persistent `embeddings` table behind each database path,   *)
(* the C strings handed to the caller and not yet released, and the        *)
(* position and locals of every foreign call in flight.                    *)
(*                                                                         *)
(* Every exported function is a sequence of steps of one calling thread.   *)
(* Spec runs one calling thread (calls never overlap); SpecConc runs two   *)
(* (the statics are `static mut` without any lock, so steps interleave).   *)
(*                                                                         *)
(* Numbers: similarity scores are exact rationals <<num, den>>; the        *)
(* vectors of the model are chosen so that every norm and every distance   *)
(* is an integer.  The f64 -> f32 rounding of main.rs:303 is not modelled. *)
(***************************************************************************)
EXTENDS Integers, Sequences, FiniteSets, TLC

\* ------------------------------------------------------------------ bounds
\* Calls started in one behaviour of one thread (Spec); cleanup calls, which
\* only clear the statics, are not counted.
MaxCalls == 3
\* The same for a behaviour of two threads (SpecConc).
MaxConcCalls == 4
\* Records one table may hold.
MaxRecords == 2
\* Largest `limit` a configuration of the model carries.
MaxLimit == 2
\* f32 values per unit interval: an f32 holds fewer digits than the f64 the
\* store computes with.
F32Steps == 4

\* ------------------------------------------------------------ Option<T>
None == [some |-> FALSE]

Some(x) == [some |-> TRUE, val |-> x]

IsSome(o) == o.some

\* ------------------------------------------------------------ rationals
RECURSIVE Gcd(_, _)
Gcd(a, b) == IF b = 0 THEN a ELSE Gcd(b, a % b)

Abs(x) == IF x < 0 THEN -x ELSE x

\* <<n, d>> in lowest terms, d > 0.
Rat(n, d) ==
    LET g == Gcd(Abs(n), Abs(d))
        s == IF d < 0 THEN -1 ELSE 1
    IN  <<s * (n \div g), s * (d \div g)>>

RatGt(a, b) == a[1] * b[2] > b[1] * a[2]

RatGe(a, b) == a[1] * b[2] >= b[1] * a[2]

\* The root of a perfect square (every argument the model passes is one).
ISqrt(n) == CHOOSE r \in 0..n : r * r = n

\* ------------------------------------------------------------ input domains
\* A *const c_char argument: a null pointer, bytes that are not UTF-8, or text.
NullPtr == [kind |-> "null"]

BadUtf8 == [kind |-> "badutf8"]

Text(s) == [kind |-> "text", text |-> s]

\* The texts callers embed and query.
Texts == {"t1", "t2", "t3"}

\* RankingStrategy, main.rs:38-43.
RankingStrategy == {"Cosine", "Euclidean", "Manhattan", "Dot"}

DbPaths == {"p1", "p2"}

ModelIds == {"m1"}

\* The (threshold, limit) pairs of the model's configurations.  The thresholds
\* are the two ends of the range [0, 1] the configuration allows; -1 stands
\* for a negative limit.
Filters == {<<<<0, 1>>, 0>>, <<<<0, 1>>, 1>>, <<<<0, 1>>, MaxLimit>>,
            <<<<1, 1>>, MaxLimit>>, <<<<0, 1>>, -1>>}

\* The JSON objects of the model: they carry every GlobalConfig field
\* (main.rs:20-27).  [wellformed |-> FALSE] is malformed JSON.
ConfigJson ==
    {[wellformed |-> TRUE, db_file_path |-> p, ranking |-> k, embedding |-> m,
      threshold |-> f[1], limit |-> f[2]] :
        p \in DbPaths, k \in RankingStrategy, m \in ModelIds, f \in Filters}

\* serde_json::from_str::<GlobalConfig>, main.rs:183: Err (None) for malformed
\* JSON and for a limit that is no u32; every other object is accepted as is.
from_str(j) ==
    IF ~j.wellformed THEN None
    ELSE IF j.limit < 0 THEN None
    ELSE Some([db_file_path |-> j.db_file_path, ranking |-> j.ranking,
               embedding |-> j.embedding, threshold |-> j.threshold,
               limit |-> j.limit])

\* Two threads are given fewer inputs than one: two configurations that differ
\* in every field the model lets differ, the path of the store included, and
\* one text.
ConcConfigJson ==
    {j \in ConfigJson :
        \/ /\ j.db_file_path = "p1"
           /\ j.ranking = "Cosine" /\ j.threshold = <<0, 1>> /\ j.limit = 1
        \/ /\ j.db_file_path = "p2"
           /\ j.ranking = "Dot" /\ j.threshold = <<1, 1>> /\ j.limit = MaxLimit}

\* One thread is given every configuration of the store at the first path.
SeqConfigJson == {j \in ConfigJson : j.db_file_path = "p1"}

ConcTexts == {"t1"}

\* The Embedding Provider: the dense vector a model gives a text.
TextVec(model, text) ==
    CASE text = "t1" -> <<5, 0>>
      [] text = "t2" -> <<9, 0>>
      [] OTHER       -> <<0, 12>>

\* The tables an earlier process may have left behind a path: the store is a
\* file, it outlives the process.  It left nothing, or the record of one text.
StoredTables ==
    {<<>>} \cup {<<[id |-> 1, vector |-> TextVec(m, x)]>> : m \in ModelIds, x \in Texts}

\* ------------------------------------------------------------ state
VARIABLES
    RUNTIME,    \* OnceLock<Runtime>: TRUE once initialised
    DATABASE,   \* Option<Arc<Surreal<Db>>>
    EMBEDDER,   \* Option<Arc<Embedder>>
    CONFIG,     \* Option<GlobalConfig>
    disk,       \* db path -> the rows of table `embeddings`, in creation order
    heap,       \* addresses of the C strings the caller owns
    crashed,    \* the process died (panic across the FFI boundary, fault)
    calls,      \* number of foreign calls started
    th,         \* thread -> the call it runs: position, locals, result
    conc,       \* the host calls from two threads (SpecConc) or from one (Spec)
    hist        \* history: what already happened in this behaviour

vars == <<RUNTIME, DATABASE, EMBEDDER, CONFIG, disk, heap, crashed, calls, th, conc, hist>>

Threads == {1, 2}

Idle ==
    [pc |-> "idle", op |-> "none", arg |-> NullPtr,
     cfg |-> None, db |-> None, emb |-> None, vec |-> <<0, 0>>,
     res |-> [kind |-> "none"], prov |-> FALSE, store |-> FALSE,
     stages |-> <<>>, ready0 |-> FALSE, text |-> "", prev |-> None,
     made0 |-> {}]

Init ==
    /\ RUNTIME = FALSE
    /\ DATABASE = None
    /\ EMBEDDER = None
    /\ CONFIG = None
    /\ disk \in {d \in [DbPaths -> StoredTables] : d["p2"] = <<>>}
    /\ heap = {}
    /\ crashed = FALSE
    /\ calls = 0
    /\ th = [t \in Threads |-> Idle]
    /\ conc = FALSE
    /\ hist = [inited |-> FALSE, cleaned |-> FALSE, uaf |-> FALSE, made |-> {}]

\* ------------------------------------------------------------ helpers
\* The arguments the host passes to with_config, and to embed and query.
HostJson == IF conc THEN ConcConfigJson ELSE SeqConfigJson \cup {[wellformed |-> FALSE]}

HostTexts == IF conc THEN ConcTexts ELSE Texts

ConfigArgs == {NullPtr, BadUtf8} \cup {Text(j) : j \in HostJson}

TextArgs == {NullPtr, BadUtf8} \cup {Text(s) : s \in HostTexts}

\* The session as the callers see it: all three statics are set.
Ready == IsSome(DATABASE) /\ IsSome(EMBEDDER) /\ IsSome(CONFIG)

\* embed_text that goes on without looking at EMBEDDER.
HasEmbedder_Unchecked == TRUE

\* embed_text, main.rs:124-126: EMBEDDER.as_ref().ok_or_else(..)? goes on only
\* with an embedder.
HasEmbedder == IsSome(EMBEDDER)

\* The identity of a new Arc: one that no static and no call's record holds.
Held ==
    {h.val.conn : h \in {x \in {DATABASE, EMBEDDER} \cup {th[t].db : t \in Threads}
                                 \cup {th[t].emb : t \in Threads} : IsSome(x)}}

NewConn == CHOOSE c \in 1..(Cardinality(Held) + 1) : c \notin Held

\* A thread may start a call: it runs none, the process lives, conc is left.
CanCall(t) ==
    /\ ~crashed
    /\ th[t].pc \in {"idle", "done"}
    /\ calls < (IF conc THEN MaxConcCalls ELSE MaxCalls)

\* The successful embed that thread t completed last, if that is what it did
\* last: its text and the identifier it returned.
LastEmbed(t) ==
    IF th[t].pc = "done" /\ th[t].op = "embed" /\ th[t].res.ptr # 0
    THEN Some([text |-> th[t].text, id |-> th[t].res.val])
    ELSE None

\* The locals of a call that starts now; of the argument, `arg` keeps the kind.
Begin(op, arg) ==
    [Idle EXCEPT !.op = op, !.arg = [kind |-> arg.kind], !.ready0 = Ready]

\* The call ends with result res: its locals are gone (what it was asked and
\* what it did stay on record).
Finish(r, res) ==
    [r EXCEPT !.pc = "done", !.res = res,
              !.cfg = None, !.db = None, !.emb = None, !.vec = <<0, 0>>,
              !.made0 = {}]

\* The call returns an i32.
RetInt(r, code) == Finish(r, [kind |-> "int", code |-> code])

\* The call returns a null pointer; `why` names the line that gave up.
RetNull(r, why) == Finish(r, [kind |-> "ptr", ptr |-> 0, why |-> why])

\* CStr::from_ptr(p).to_str(), main.rs:177, 219, 267.  A null p is undefined
\* behaviour (from_ptr requires a valid pointer): the set holds what a build
\* can make of it, a fault or a decoding of whatever memory it read (not
\* UTF-8, or one of the texts of `garbage`).
Decodings(arg, garbage) ==
    IF arg.kind = "null"
    THEN {[k |-> "fault"], [k |-> "err"]} \cup {[k |-> "ok", s |-> x] : x \in garbage}
    ELSE IF arg.kind = "badutf8" THEN {[k |-> "err"]}
    ELSE {[k |-> "ok", s |-> arg.text]}

\* The process dies inside the call of thread t.
Fault(t, r) ==
    /\ crashed' = TRUE
    /\ th' = [th EXCEPT ![t] = [r EXCEPT !.pc = "fault"]]

\* ------------------------------------------------------------ with_config
\* What the stages of with_config may meet once the argument is decoded as d:
\* the store or the provider failing, or nothing failing.
StageOutcomes(d) ==
    IF d.k = "ok" /\ IsSome(from_str(d.s))
    THEN {"store fails", "provider fails", "ok"} ELSE {"ok"}

\* with_config that constructs the provider before it opens the store.
WithConfigStages_EmbedderFirst(arg, d, o) ==
    LET r0 == [Begin("with_config", arg) EXCEPT !.stages = <<"decode">>]
        r1 == [r0 EXCEPT !.stages = Append(@, "parse")]
        r2 == [r1 EXCEPT !.stages = Append(@, "embedder")]
        r3 == [r2 EXCEPT !.stages = Append(@, "connect")]
        config == from_str(d.s)
    IN  IF d.k = "fault" THEN [r0 EXCEPT !.pc = "fault"]
        ELSE IF d.k = "err" THEN RetInt(r0, -1)
        ELSE IF ~IsSome(config) THEN RetInt(r1, -2)
        ELSE IF o = "provider fails" THEN RetInt(r2, -4)
        ELSE IF o = "store fails" THEN RetInt(r3, -3)
        ELSE [r3 EXCEPT !.pc = "wc_store_db",
                        !.cfg = config,
                        !.db = Some([conn |-> NewConn,
                                     path |-> config.val.db_file_path]),
                        !.emb = Some([conn |-> NewConn,
                                      model |-> config.val.embedding])]

\* main.rs:176-198, the locals of with_config after its four stages: the
\* argument is decoded (-1) and parsed (-2); the store is opened at
\* config.db_file_path (connect_database, main.rs:90-108: its directory and
\* table are created when absent, no row is touched; -3 when the store
\* fails); the provider loads the model (create_embedder, main.rs:111-120; -4
\* when it fails).  `stages` logs the stages attempted.
WithConfigStages(arg, d, o) ==
    LET r0 == [Begin("with_config", arg) EXCEPT !.stages = <<"decode">>]
        r1 == [r0 EXCEPT !.stages = Append(@, "parse")]
        r2 == [r1 EXCEPT !.stages = Append(@, "connect")]
        r3 == [r2 EXCEPT !.stages = Append(@, "embedder")]
        config == from_str(d.s)
    IN  IF d.k = "fault" THEN [r0 EXCEPT !.pc = "fault"]
        ELSE IF d.k = "err" THEN RetInt(r0, -1)
        ELSE IF ~IsSome(config) THEN RetInt(r1, -2)
        ELSE IF o = "store fails" THEN RetInt(r2, -3)
        ELSE IF o = "provider fails" THEN RetInt(r3, -4)
        ELSE [r3 EXCEPT !.pc = "wc_store_db",
                        !.cfg = config,
                        !.db = Some([conn |-> NewConn,
                                     path |-> config.val.db_file_path]),
                        !.emb = Some([conn |-> NewConn,
                                      model |-> config.val.embedding])]

\* with_config that assigns DATABASE as soon as the store is open, before the
\* provider is constructed.
WithConfigCall_StoreEarly(t) ==
    /\ CanCall(t)
    /\ calls' = calls + 1
    /\ RUNTIME' = TRUE
    /\ \E arg \in ConfigArgs : \E d \in Decodings(arg, {[wellformed |-> FALSE]}) :
       \E o \in StageOutcomes(d) :
         LET r == WithConfigStages(arg, d, o)
         IN  /\ th' = [th EXCEPT ![t] = r]
             /\ crashed' = (r.pc = "fault")
             /\ DATABASE' = IF Len(r.stages) = 4
                             THEN Some([conn |-> NewConn, path |-> "p1"])
                             ELSE DATABASE
    /\ UNCHANGED <<EMBEDDER, CONFIG, disk, heap, conc, hist>>

\* main.rs:173-198, the part of with_config that touches no static but
\* RUNTIME: the runtime is created on first use, then the four stages run.
WithConfigCall(t) ==
    /\ CanCall(t)
    /\ calls' = calls + 1
    /\ RUNTIME' = TRUE
    /\ \E arg \in ConfigArgs : \E d \in Decodings(arg, {[wellformed |-> FALSE]}) :
       \E o \in StageOutcomes(d) :
         LET r == WithConfigStages(arg, d, o)
         IN  /\ th' = [th EXCEPT ![t] = r]
             /\ crashed' = (r.pc = "fault")
    /\ UNCHANGED <<DATABASE, EMBEDDER, CONFIG, disk, heap, conc, hist>>

\* main.rs:202: DATABASE = Some(db), whatever DATABASE held.
WithConfigStoreDb(t) ==
    /\ ~crashed
    /\ th[t].pc = "wc_store_db"
    /\ DATABASE' = th[t].db
    /\ th' = [th EXCEPT ![t].pc = "wc_store_emb"]
    /\ UNCHANGED <<RUNTIME, EMBEDDER, CONFIG, disk, heap, crashed, calls, conc, hist>>

\* main.rs:203: EMBEDDER = Some(embedder).
WithConfigStoreEmb(t) ==
    /\ ~crashed
    /\ th[t].pc = "wc_store_emb"
    /\ EMBEDDER' = th[t].emb
    /\ th' = [th EXCEPT ![t].pc = "wc_store_cfg"]
    /\ UNCHANGED <<RUNTIME, DATABASE, CONFIG, disk, heap, crashed, calls, conc, hist>>

\* main.rs:204-207: CONFIG = Some(config), and the call returns 0 (the record
\* of the call keeps what it stored).
WithConfigStoreCfg(t) ==
    /\ ~crashed
    /\ th[t].pc = "wc_store_cfg"
    /\ CONFIG' = th[t].cfg
    /\ th' = [th EXCEPT ![t] = [th[t] EXCEPT !.pc = "done",
                                              !.res = [kind |-> "int", code |-> 0]]]
    /\ hist' = [hist EXCEPT !.inited = TRUE]
    /\ UNCHANGED <<RUNTIME, DATABASE, EMBEDDER, disk, heap, crashed, calls, conc>>

\* ------------------------------------------------------------ cleanup
\* cleanup that takes the database out of the static and unwraps it.
CleanupCall_Unwrap(t) ==
    /\ ~crashed
    /\ th[t].pc \in {"idle", "done"}
    /\ DATABASE' = None
    /\ crashed' = ~IsSome(DATABASE)
    /\ th' = [th EXCEPT ![t] =
          [Begin("cleanup", NullPtr) EXCEPT
              !.pc = IF IsSome(DATABASE) THEN "cl_emb" ELSE "fault"]]
    /\ hist' = [hist EXCEPT !.made = {}]
    /\ UNCHANGED <<RUNTIME, EMBEDDER, CONFIG, disk, heap, calls, conc>>

\* main.rs:328-330: the call starts and DATABASE = None.  The session is no
\* longer Ready: `made` forgets the records of the Ready session.
CleanupCall(t) ==
    /\ ~crashed
    /\ th[t].pc \in {"idle", "done"}
    /\ DATABASE' = None
    /\ th' = [th EXCEPT ![t] =
          [Begin("cleanup", NullPtr) EXCEPT !.pc = "cl_emb"]]
    /\ hist' = [hist EXCEPT !.made = {}]
    /\ UNCHANGED <<RUNTIME, EMBEDDER, CONFIG, disk, heap, crashed, calls, conc>>

\* main.rs:331: EMBEDDER = None.
CleanupEmb(t) ==
    /\ ~crashed
    /\ th[t].pc = "cl_emb"
    /\ EMBEDDER' = None
    /\ th' = [th EXCEPT ![t].pc = "cl_cfg"]
    /\ hist' = [hist EXCEPT !.made = {}]
    /\ UNCHANGED <<RUNTIME, DATABASE, CONFIG, disk, heap, crashed, calls, conc>>

\* main.rs:332-334: CONFIG = None, and the call returns.
CleanupCfg(t) ==
    /\ ~crashed
    /\ th[t].pc = "cl_cfg"
    /\ CONFIG' = None
    /\ th' = [th EXCEPT ![t] = Finish(th[t], [kind |-> "void"])]
    /\ hist' = [hist EXCEPT !.cleaned = @ \/ th[t].ready0, !.made = {}]
    /\ UNCHANGED <<RUNTIME, DATABASE, EMBEDDER, disk, heap, crashed, calls, conc>>

\* ------------------------------------------------------------ ranking
DotProduct(v, q) == v[1] * q[1] + v[2] * q[2]

EuclideanDistance(v, q) ==
    ISqrt((v[1] - q[1]) * (v[1] - q[1]) + (v[2] - q[2]) * (v[2] - q[2]))

ManhattanDistance(v, q) == Abs(v[1] - q[1]) + Abs(v[2] - q[2])

\* get_query_template, main.rs:52-87: the similarity_score column of each
\* strategy's SELECT.
similarity_score(strategy, v, q) ==
    CASE strategy = "Cosine" ->
           Rat(DotProduct(v, q), ISqrt(DotProduct(v, v)) * ISqrt(DotProduct(q, q)))
      [] strategy = "Euclidean" -> Rat(1, 1 + EuclideanDistance(v, q))
      [] strategy = "Manhattan" -> Rat(1, 1 + ManhattanDistance(v, q))
      [] OTHER -> Rat(DotProduct(v, q), 1)

\* Id::to_string, main.rs:143 and 302: the text form of a record id.
IdToString(id) == <<"embeddings-id", id>>

\* WHERE similarity_score >= $threshold in place of >.
Passing_Ge(rows, q, config) ==
    {i \in 1..Len(rows) :
        RatGe(similarity_score(config.ranking, rows[i].vector, q), config.threshold)}

\* WHERE similarity_score > $threshold: the rows (by position) that pass.
Passing(rows, q, config) ==
    {i \in 1..Len(rows) :
        RatGt(similarity_score(config.ranking, rows[i].vector, q), config.threshold)}

Min(a, b) == IF a < b THEN a ELSE b

\* ORDER BY similarity_score ASC in place of DESC.
QueryAnswers_Asc(rows, q, config) ==
    LET pass == Passing(rows, q, config)
        n == Min(config.limit, Cardinality(pass))
        sc(i) == similarity_score(config.ranking, rows[i].vector, q)
    IN  {s \in [1..n -> pass] :
            /\ \A i, j \in 1..n : i < j => s[i] # s[j] /\ RatGe(sc(s[j]), sc(s[i]))
            /\ \A k \in pass : (\A i \in 1..n : s[i] # k) =>
                                \A i \in 1..n : RatGe(sc(k), sc(s[i]))}

\* get_query_template with its bindings, main.rs:52-87 and 284-288: every
\* answer the store may give.  The passing rows come ORDER BY similarity_score
\* DESC, cut at LIMIT $limit; the statement names no second key, so rows of
\* equal score come in any order.
QueryAnswers(rows, q, config) ==
    LET pass == Passing(rows, q, config)
        n == Min(config.limit, Cardinality(pass))
        sc(i) == similarity_score(config.ranking, rows[i].vector, q)
    IN  {s \in [1..n -> pass] :
            /\ \A i, j \in 1..n : i < j => s[i] # s[j] /\ RatGe(sc(s[i]), sc(s[j]))
            /\ \A k \in pass : (\A i \in 1..n : s[i] # k) =>
                                \A i \in 1..n : RatGe(sc(s[i]), sc(k))}

\* `result.similarity_score as f32`, main.rs:303: the f64 score is rounded to
\* the nearest f32, a tie to the even one.
AsF32(r) ==
    LET n == r[1] * F32Steps
        k == n \div r[2]
        rem == n - k * r[2]
        up == 2 * rem > r[2] \/ (2 * rem = r[2] /\ k % 2 = 1)
    IN  Rat(IF up THEN k + 1 ELSE k, F32Steps)

\* main.rs:299-305: each row of the answer becomes a SearchMatch.
Matches(rows, q, config, s) ==
    [i \in 1..Len(s) |->
        [id |-> IdToString(rows[s[i]].id),
         similarity_score |->
             AsF32(similarity_score(config.ranking, rows[s[i]].vector, q))]]

\* ------------------------------------------------------------ buffers
\* An allocation that may land on the address of a live buffer.
Alloc_Reuse == CHOOSE p \in 1..(Cardinality(heap) + 1) : TRUE

\* CString::new + mem::forget, main.rs:144-148 and 158-162: a fresh allocation
\* whose address is not that of a live buffer.
Alloc == CHOOSE p \in 1..(Cardinality(heap) + 1) : p \notin heap

\* The call returns a buffer at address p holding v.
RetPtr(r, p, v) == Finish(r, [kind |-> "ptr", ptr |-> p, val |-> v])

\* matches_to_cstring that gives an empty sequence the null pointer.
matches_to_cstring_NullOnEmpty(matches) ==
    IF matches = <<>> THEN [kind |-> "ptr", ptr |-> 0, why |-> "empty"]
    ELSE [kind |-> "ptr", ptr |-> Alloc, val |-> matches]

\* matches_to_cstring, main.rs:155-169: the JSON array of the matches, the
\* empty one included, in a fresh buffer.  (Neither Err arm can be taken: the
\* JSON of a String and an f32 always serialises, and escapes every NUL.)
matches_to_cstring(matches) == [kind |-> "ptr", ptr |-> Alloc, val |-> matches]

\* A reference taken from a static is stale once the static was reassigned:
\* the Arc it pointed into was dropped.  Using it is undefined behaviour.
Stale(held, static) == held # static

\* What a use of a possibly stale reference can do: fault, or go on.
UseOutcomes(held, static) == IF Stale(held, static) THEN {"fault", "go"} ELSE {"go"}

\* ------------------------------------------------------------ embed, query
\* main.rs:212-227 (embed) and 260-275 (query), with embed_text, main.rs:
\* 124-126: no runtime, no call; the text is decoded; no embedder is an Err
\* of embed_text, which the caller turns into a null result.
TextCall(t, op) ==
    /\ CanCall(t)
    /\ calls' = calls + 1
    /\ \E arg \in TextArgs :
         LET r == [Begin(op, arg) EXCEPT
                      !.prev = LastEmbed(t),
                      !.made0 = IF op = "query" THEN hist.made ELSE {}]
         IN  IF ~RUNTIME
             THEN crashed' = crashed /\ th' = [th EXCEPT ![t] = RetNull(r, "runtime")]
             ELSE \E d \in Decodings(arg, HostTexts) :
                    IF d.k = "fault" THEN Fault(t, r)
                    ELSE /\ crashed' = crashed
                         /\ th' = [th EXCEPT ![t] =
                               IF d.k = "err" THEN RetNull(r, "decode")
                               ELSE IF ~HasEmbedder
                               THEN RetNull([r EXCEPT !.text = d.s], "embedder")
                               ELSE [r EXCEPT !.pc = "et_provider", !.text = d.s,
                                              !.emb = EMBEDDER]]
    /\ UNCHANGED <<RUNTIME, DATABASE, EMBEDDER, CONFIG, disk, heap, conc, hist>>

EmbedCall(t) == TextCall(t, "embed")

QueryCall(t) == TextCall(t, "query")

\* embed_text, main.rs:129-138: the provider is called through the reference
\* read before; it gives the text's vector or fails.
EmbedTextProvider(t) ==
    /\ ~crashed
    /\ th[t].pc = "et_provider"
    /\ hist' = [hist EXCEPT !.uaf = @ \/ Stale(th[t].emb, EMBEDDER)]
    /\ \E u \in UseOutcomes(th[t].emb, EMBEDDER) : \E ok \in BOOLEAN :
         LET r == [th[t] EXCEPT !.prov = TRUE]
         IN  IF u = "fault" THEN Fault(t, r)
             ELSE /\ crashed' = crashed
                  /\ th' = [th EXCEPT ![t] =
                        IF ~ok THEN RetNull(r, "provider")
                        ELSE [r EXCEPT !.vec = TextVec(r.emb.val.model, r.text),
                                       !.pc = IF r.op = "embed" THEN "em_db"
                                              ELSE "q_handles"]]
    /\ UNCHANGED <<RUNTIME, DATABASE, EMBEDDER, CONFIG, disk, heap, calls, conc>>

\* main.rs:230: DATABASE.as_ref().unwrap() panics on None, and a panic in an
\* extern "C" function ends the process.
EmbedDb(t) ==
    /\ ~crashed
    /\ th[t].pc = "em_db"
    /\ IF IsSome(DATABASE)
       THEN /\ crashed' = crashed
            /\ th' = [th EXCEPT ![t] = [th[t] EXCEPT !.pc = "em_create", !.db = DATABASE]]
       ELSE Fault(t, th[t])
    /\ UNCHANGED <<RUNTIME, DATABASE, EMBEDDER, CONFIG, disk, heap, calls, conc, hist>>

\* The id the store generates for a new record: one no record has, in any
\* table of any path.
NewId ==
    LET ids == UNION {{disk[p][i].id : i \in 1..Len(disk[p])} : p \in DbPaths}
    IN  CHOOSE i \in 1..(Cardinality(ids) + 1) : i \notin ids

\* main.rs:231-255: CREATE embeddings SET vector = $vector, then the created
\* row is read back and its id returned as a C string.  "err": the statement
\* fails and creates nothing.  "readback": the row is created and reading it
\* back fails (main.rs:242, 249).  Both give a null result.
EmbedCreate(t) ==
    /\ ~crashed
    /\ th[t].pc = "em_create"
    /\ \E u \in UseOutcomes(th[t].db, DATABASE) :
       \E o \in {"ok", "err", "readback"} :
         LET r == [th[t] EXCEPT !.store = TRUE]
             path == r.db.val.path
             row == [id |-> NewId, vector |-> r.vec]
             used == [hist EXCEPT !.uaf = @ \/ Stale(th[t].db, DATABASE)]
         IN  IF u = "fault"
             THEN Fault(t, r) /\ hist' = used /\ UNCHANGED <<disk, heap>>
             ELSE IF o = "err"
             THEN /\ th' = [th EXCEPT ![t] = RetNull(r, "store")]
                  /\ hist' = used
                  /\ UNCHANGED <<disk, heap, crashed>>
             ELSE /\ Len(disk[path]) < MaxRecords
                  /\ disk' = [disk EXCEPT ![path] = Append(@, row)]
                  /\ crashed' = crashed
                  /\ IF o = "ok"
                     THEN /\ th' = [th EXCEPT ![t] = RetPtr(r, Alloc, IdToString(row.id))]
                          /\ heap' = heap \cup {Alloc}
                          /\ hist' = [used EXCEPT !.made = @ \cup {IdToString(row.id)}]
                     ELSE /\ th' = [th EXCEPT ![t] = RetNull(r, "readback")]
                          /\ heap' = heap
                          /\ hist' = used
    /\ UNCHANGED <<RUNTIME, DATABASE, EMBEDDER, CONFIG, calls, conc>>

\* main.rs:278-287: CONFIG.as_ref().unwrap() and DATABASE.as_ref().unwrap()
\* panic on None; the ranking, threshold and limit are read and bound.
QueryHandles(t) ==
    /\ ~crashed
    /\ th[t].pc = "q_handles"
    /\ IF IsSome(CONFIG) /\ IsSome(DATABASE)
       THEN /\ crashed' = crashed
            /\ th' = [th EXCEPT ![t] =
                  [th[t] EXCEPT !.pc = "q_search", !.cfg = CONFIG, !.db = DATABASE]]
       ELSE Fault(t, th[t])
    /\ UNCHANGED <<RUNTIME, DATABASE, EMBEDDER, CONFIG, disk, heap, calls, conc, hist>>

\* main.rs:284-313: the SELECT runs on the store; its answer, as SearchMatch
\* values in a JSON C string, is returned; a failing statement gives null.
QuerySearch(t) ==
    /\ ~crashed
    /\ th[t].pc = "q_search"
    /\ hist' = [hist EXCEPT !.uaf = @ \/ Stale(th[t].db, DATABASE)]
    /\ \E u \in UseOutcomes(th[t].db, DATABASE) : \E ok \in BOOLEAN :
         LET r == [th[t] EXCEPT !.store = TRUE]
             rows == disk[r.db.val.path]
         IN  IF u = "fault" THEN Fault(t, r) /\ heap' = heap
             ELSE IF ~ok
             THEN /\ th' = [th EXCEPT ![t] = RetNull(r, "store")]
                  /\ UNCHANGED <<heap, crashed>>
             ELSE \E s \in QueryAnswers(rows, r.vec, r.cfg.val) :
                    LET res == matches_to_cstring(Matches(rows, r.vec, r.cfg.val, s))
                    IN  /\ th' = [th EXCEPT ![t] = Finish(r, res)]
                        /\ heap' = heap \cup ({res.ptr} \ {0})
                        /\ crashed' = crashed
    /\ UNCHANGED <<RUNTIME, DATABASE, EMBEDDER, CONFIG, disk, calls, conc>>

\* ------------------------------------------------------------ free_cstring
\* main.rs:318-324: null is ignored; any other pointer is freed.  The caller
\* passes null or a buffer it still owns.
FreeCstring(t) ==
    /\ CanCall(t)
    /\ calls' = calls + 1
    /\ \E p \in heap \cup {0} :
         /\ heap' = IF p = 0 THEN heap ELSE heap \ {p}
         /\ th' = [th EXCEPT ![t] =
               Finish(Begin("free_cstring", [kind |-> IF p = 0 THEN "null" ELSE "ptr"]),
                      [kind |-> "void"])]
    /\ UNCHANGED <<RUNTIME, DATABASE, EMBEDDER, CONFIG, disk, crashed, conc, hist>>

\* ------------------------------------------------------------ specifications
Step(t) ==
    \/ WithConfigCall(t)
    \/ WithConfigStoreDb(t)
    \/ WithConfigStoreEmb(t)
    \/ WithConfigStoreCfg(t)
    \/ EmbedCall(t)
    \/ QueryCall(t)
    \/ EmbedTextProvider(t)
    \/ EmbedDb(t)
    \/ EmbedCreate(t)
    \/ QueryHandles(t)
    \/ QuerySearch(t)
    \/ FreeCstring(t)
    \/ CleanupCall(t)
    \/ CleanupEmb(t)
    \/ CleanupCfg(t)

\* One calling thread: calls never overlap.
Next == Step(1)

Spec == Init /\ [][Next]_vars

\* Two calling threads: the steps of their calls interleave.
NextConc == \E t \in Threads : Step(t)

InitConc ==
    /\ RUNTIME = FALSE
    /\ DATABASE = None
    /\ EMBEDDER = None
    /\ CONFIG = None
    /\ disk = [p \in DbPaths |-> <<>>]
    /\ heap = {}
    /\ crashed = FALSE
    /\ calls = 0
    /\ th = [t \in Threads |-> Idle]
    /\ conc = TRUE
    /\ hist = [inited |-> FALSE, cleaned |-> FALSE, uaf |-> FALSE, made |-> {}]

SpecConc == InitConc /\ [][NextConc]_vars

\* ------------------------------------------------------------ claims
\* Thread t made a step of the call it runs.
Moved(t) == th'[t] # th[t]

\* Thread t returns from a call of op in this step.
Returns(t, op) == Moved(t) /\ th'[t].op = op /\ th'[t].pc = "done"

\* The result of a completed embed or query is the failure signal.
NullResult(r) == r.pc = "done" => r.res.ptr = 0

\* C1: a with_config that starts while the session is Ready changes none of
\* DATABASE, EMBEDDER and CONFIG, and does not return 0.
C1_ReinitKeepsState ==
    [][\A t \in Threads :
          (Moved(t) /\ th'[t].op = "with_config" /\ th'[t].ready0) =>
              /\ DATABASE' = DATABASE
              /\ EMBEDDER' = EMBEDDER
              /\ CONFIG' = CONFIG
              /\ ~(th'[t].pc = "done" /\ th'[t].res.code = 0)]_vars

\* A with_config passed all four stages, so it went on to store its state.
Passed(r) == r.op = "with_config" /\ r.pc = "done" /\ Len(r.stages) = 4 /\ r.res.code # -4

\* C2: of two with_config calls that overlap, both started while nothing was
\* initialised and both with a configuration that passes every stage, exactly
\* one returns 0, and DATABASE, EMBEDDER and CONFIG are what that call stored.
C2_OneWinner ==
    (/\ \A t \in Threads : Passed(th[t]) /\ ~th[t].ready0
     /\ calls = 2)
    => \E w \in Threads :
          /\ th[w].res.code = 0
          /\ \A u \in Threads \ {w} : th[u].res.code # 0
          /\ DATABASE = th[w].db /\ EMBEDDER = th[w].emb /\ CONFIG = th[w].cfg

\* C3: as long as no with_config has returned 0, an embed or query never
\* calls the provider or the store, returns the null handle when it returns,
\* and ends in a fault only on a null argument.
C3_NotReadyBeforeInit ==
    ~hist.inited =>
        \A t \in Threads :
            th[t].op \in {"embed", "query"} =>
                /\ ~th[t].prov
                /\ ~th[t].store
                /\ NullResult(th[t])
                /\ th[t].pc = "fault" => th[t].arg.kind = "null"

\* C3 witness: after a with_config that failed (the runtime exists), a query
\* of a text has returned the null handle.
C3_Witness ==
    /\ ~hist.inited
    /\ RUNTIME
    /\ th[1].op = "query" /\ th[1].pc = "done" /\ th[1].arg.kind = "text"
    /\ th[1].res.ptr = 0

\* C4: once a cleanup of a Ready session has completed, an embed or query
\* never calls the provider or the store, returns the null handle when it
\* returns, and ends in a fault only on a null argument.
C4_NotReadyAfterShutdown ==
    hist.cleaned =>
        \A t \in Threads :
            th[t].op \in {"embed", "query"} =>
                /\ ~th[t].prov
                /\ ~th[t].store
                /\ NullResult(th[t])
                /\ th[t].pc = "fault" => th[t].arg.kind = "null"

\* No static is set.
Uninitialized == ~IsSome(DATABASE) /\ ~IsSome(EMBEDDER) /\ ~IsSome(CONFIG)

\* C5: a with_config that returns a non-zero code returns one of -1..-4, the
\* code of the stage it stopped at, and leaves DATABASE, EMBEDDER and CONFIG
\* as they were: from Uninitialized the session is Uninitialized afterwards,
\* and no initialisation is on record.
C5_FailedInitChangesNothing ==
    [][\A t \in Threads :
          (Returns(t, "with_config") /\ th'[t].res.code # 0) =>
              /\ th'[t].res.code = -Len(th'[t].stages)
              /\ Len(th'[t].stages) \in 1..4
              /\ DATABASE' = DATABASE /\ EMBEDDER' = EMBEDDER /\ CONFIG' = CONFIG
              /\ Uninitialized => Uninitialized'
              /\ hist' = hist]_vars

\* C5 witness: a with_config has failed at its last stage, provider
\* construction, and the session is Uninitialized.
C5_Witness ==
    /\ th[1].op = "with_config" /\ th[1].pc = "done" /\ th[1].res.code = -4
    /\ Uninitialized
    /\ ~hist.inited

\* C6: once a cleanup of a Ready session has completed, the session is never
\* Ready again.
C6_ShutDownIsTerminal == hist.cleaned => ~Ready

\* C7: an embed or query of a text that started while Ready and runs beside a
\* cleanup never ends in a fault and never uses a handle that was released.
C7_ShutdownRaceIsRecoverable ==
    \A t, u \in Threads :
        (/\ t # u
         /\ th[t].op \in {"embed", "query"} /\ th[t].ready0 /\ th[t].arg.kind = "text"
         /\ th[u].op = "cleanup")
        => th[t].pc # "fault" /\ ~hist.uaf

\* C8: a cleanup that starts while the session is not Ready (Uninitialized or
\* shut down) changes nothing, and every completed cleanup leaves all three
\* statics empty, so a repeated cleanup ends where the first one did.
C8_CleanupIdempotent ==
    [][\A t \in Threads :
          (Moved(t) /\ th'[t].op = "cleanup") =>
              /\ ~th'[t].ready0 =>
                    UNCHANGED <<RUNTIME, DATABASE, EMBEDDER, CONFIG, disk, heap,
                                crashed, calls, hist>>
              /\ th'[t].pc = "done" => Uninitialized']_vars

\* C8 witness: after the cleanup that shut the session down, a second cleanup
\* has completed.
C8_Witness ==
    /\ hist.cleaned
    /\ th[1].op = "cleanup" /\ th[1].pc = "done" /\ ~th[1].ready0
    /\ Uninitialized

\* Thread t has returned a sequence of matches from query.
QueryReturned(t) == th[t].op = "query" /\ th[t].pc = "done" /\ th[t].res.ptr # 0

\* The vector the provider gives the text of thread t's call.
QueryVector(t) == TextVec(EMBEDDER.val.model, th[t].text)

\* The score the store computes for its record of identifier id against the
\* text of thread t's call, under the active configuration.
StoreScore(t, id) ==
    LET rows == disk[DATABASE.val.path]
        k == CHOOSE i \in 1..Len(rows) : IdToString(rows[i].id) = id
    IN  similarity_score(CONFIG.val.ranking, rows[k].vector, QueryVector(t))

\* The identifiers of the stored records.
StoredIds == {IdToString(disk[DATABASE.val.path][i].id) :
                 i \in 1..Len(disk[DATABASE.val.path])}

\* C9 as stated: every entry a query returns has similarity_score > threshold,
\* the entries are in strictly descending order of similarity_score, and
\* there are at most limit of them.
C9_StrictlyDescending ==
    \A t \in Threads :
        QueryReturned(t) =>
            LET m == th[t].res.val
            IN  /\ Len(m) <= CONFIG.val.limit
                /\ \A i \in 1..Len(m) :
                      RatGt(m[i].similarity_score, CONFIG.val.threshold)
                /\ \A i, j \in 1..Len(m) :
                      i < j => RatGt(m[i].similarity_score, m[j].similarity_score)

\* C9: a query returns at most limit entries; each is a distinct stored
\* record whose score, as the store computes it, is > threshold; the
\* similarity_score returned is that score narrowed to f32, which is >=
\* threshold; and the entries are in non-increasing order of similarity_score.
C9_Descending ==
    \A t \in Threads :
        QueryReturned(t) =>
            LET m == th[t].res.val
            IN  /\ Len(m) <= CONFIG.val.limit
                /\ \A i \in 1..Len(m) :
                      /\ m[i].id \in StoredIds
                      /\ RatGt(StoreScore(t, m[i].id), CONFIG.val.threshold)
                      /\ m[i].similarity_score = AsF32(StoreScore(t, m[i].id))
                      /\ RatGe(m[i].similarity_score, CONFIG.val.threshold)
                /\ \A i, j \in 1..Len(m) :
                      i < j => /\ m[i].id # m[j].id
                               /\ RatGe(m[i].similarity_score, m[j].similarity_score)

\* C9 witness: a query has returned two entries, the first of a higher
\* similarity_score than the second.
C9_Witness ==
    /\ QueryReturned(1)
    /\ Len(th[1].res.val) = 2
    /\ RatGt(th[1].res.val[1].similarity_score, th[1].res.val[2].similarity_score)

\* Thread t has returned a sequence of matches from query(T), and the call it
\* made just before was an embed(T) that returned an identifier.
EmbedThenQuery(t) ==
    QueryReturned(t) /\ IsSome(th[t].prev) /\ th[t].prev.val.text = th[t].text

\* C10 as stated: embed(T) returning I followed immediately by query(T) gives
\* a non-empty sequence whose first entry has identifier I.
C10_SelfFirst ==
    \A t \in Threads :
        EmbedThenQuery(t) =>
            /\ Len(th[t].res.val) >= 1
            /\ th[t].res.val[1].id = th[t].prev.val.id

\* C10: embed(T) returning I followed immediately by query(T): when limit >= 1
\* and the store's score of record I is > threshold, the sequence is not
\* empty, its first entry scores at least as high as record I, and it is
\* record I when no other stored record scores as high as I.
C10_SelfFirstUnlessOutranked ==
    \A t \in Threads :
        EmbedThenQuery(t) =>
            LET m == th[t].res.val
                I == th[t].prev.val.id
            IN  (/\ CONFIG.val.limit >= 1
                 /\ RatGt(StoreScore(t, I), CONFIG.val.threshold))
                => /\ Len(m) >= 1
                   /\ RatGe(m[1].similarity_score, AsF32(StoreScore(t, I)))
                   /\ (\A id \in StoredIds \ {I} :
                          ~RatGe(StoreScore(t, id), StoreScore(t, I)))
                      => m[1].id = I

\* C10 witness: the store held another record, embed(T) returned I, and the
\* query(T) right after it returned I first.
C10_Witness ==
    /\ EmbedThenQuery(1)
    /\ Cardinality(StoredIds) = 2
    /\ CONFIG.val.limit >= 1
    /\ Len(th[1].res.val) >= 1
    /\ th[1].res.val[1].id = th[1].prev.val.id

\* Thread t has completed a query of a text that started in a Ready session,
\* and no stored record scores above the threshold for it.
QueryOfNoMatch(t) ==
    /\ th[t].op = "query" /\ th[t].pc = "done"
    /\ th[t].ready0 /\ th[t].arg.kind = "text"
    /\ Ready
    /\ Passing(disk[DATABASE.val.path], QueryVector(t), CONFIG.val) = {}

\* C11: a query of a Ready session that finds no record above the threshold
\* (the store may hold none at all) returns a buffer holding the empty
\* sequence; it returns the failure signal only when the provider or the
\* store itself failed.
C11_EmptyIsNotFailure ==
    \A t \in Threads :
        QueryOfNoMatch(t) =>
            IF th[t].res.ptr = 0
            THEN th[t].res.why \in {"provider", "store"}
            ELSE th[t].res.val = <<>> /\ th[t].res.ptr \in heap

\* C11 witness: the store holds a record, none scores above the threshold,
\* and the query has returned a buffer with the empty sequence.
C11_Witness ==
    /\ QueryOfNoMatch(1)
    /\ disk[DATABASE.val.path] # <<>>
    /\ th[1].res.ptr # 0
    /\ th[1].res.val = <<>>

\* C12: a with_config that returns 0 was given a valid configuration: its
\* limit is at least 1 and its threshold lies in [0, 1].
C12_InvalidConfigRejected ==
    \A t \in Threads :
        (th[t].op = "with_config" /\ th[t].pc = "done" /\ th[t].res.code = 0) =>
            /\ th[t].cfg.val.limit >= 1
            /\ RatGe(th[t].cfg.val.threshold, <<0, 1>>)
            /\ RatGe(<<1, 1>>, th[t].cfg.val.threshold)

\* C13: a with_config, embed or query that is given a null pointer or bytes
\* that are not UTF-8 returns its failure sentinel (-1, or the null pointer)
\* without a fault and without calling the provider or the store.
C13_DecodeFailureIsLocal ==
    \A t \in Threads :
        (/\ th[t].op \in {"with_config", "embed", "query"}
         /\ th[t].arg.kind \in {"null", "badutf8"})
        => /\ th[t].pc = "done"
           /\ ~th[t].prov /\ ~th[t].store
           /\ IF th[t].op = "with_config"
              THEN th[t].res.code = -1
              ELSE th[t].res.ptr = 0

\* C14: the buffers the caller owns change only so: an embed or query that
\* returns a buffer adds that one buffer, whose address none of the
\* outstanding buffers has; one that returns the null pointer adds none;
\* free_cstring of an outstanding buffer removes exactly one buffer, and of
\* the null pointer none; no step of any other call changes the set.
C14_BufferOwnership ==
    [][\A t \in Threads :
          Moved(t) =>
              IF th'[t].op \in {"embed", "query"} /\ th'[t].pc = "done"
              THEN IF th'[t].res.ptr # 0
                   THEN th'[t].res.ptr \notin heap /\ heap' = heap \cup {th'[t].res.ptr}
                   ELSE heap' = heap
              ELSE IF th'[t].op = "free_cstring"
              THEN IF th'[t].arg.kind = "null"
                   THEN heap' = heap
                   ELSE \E p \in heap : heap' = heap \ {p}
              ELSE heap' = heap]_vars

\* C14 witness: in a Ready session, the one outstanding buffer has been
\* released.
C14_Witness ==
    /\ th[1].op = "free_cstring" /\ th[1].pc = "done" /\ th[1].arg.kind = "ptr"
    /\ heap = {}
    /\ disk # [p \in DbPaths |-> <<>>]
    /\ Ready

\* The identifiers of the records that were created by embeds which completed
\* before thread t issued its query, in a session that has been Ready since.
MadeBefore(t) == th[t].made0 \cap hist.made

\* C15: when a query returns its matches, every record created by an embed
\* that completed before the query was issued, in a session Ready ever since,
\* is among the records the query ranked, and is returned if it scores above
\* the threshold and at most limit records score as high as it.
C15_EmbeddedIsSeen ==
    [][\A t \in Threads :
          (th[t].pc = "q_search" /\ Returns(t, "query") /\ th'[t].res.ptr # 0) =>
              LET rows == disk[th[t].db.val.path]
                  config == th[t].cfg.val
                  sc(i) == similarity_score(config.ranking, rows[i].vector, th[t].vec)
                  pass == Passing(rows, th[t].vec, config)
                  m == th'[t].res.val
              IN  \A I \in MadeBefore(t) :
                    \E k \in 1..Len(rows) :
                      /\ IdToString(rows[k].id) = I
                      /\ (/\ k \in pass
                          /\ Cardinality({j \in pass : RatGe(sc(j), sc(k))}) <= config.limit)
                         => \E i \in 1..Len(m) : m[i].id = I]_vars

\* The stages of with_config in the order of main.rs:176-198.
StageOrder == <<"decode", "parse", "connect", "embedder">>

\* C16: the stages a with_config has attempted are the first ones of decode,
\* parse, connect, embedder, in this order; a call that returns a non-zero
\* code stopped at the stage of that code (-1, -2, -3, -4) and holds no
\* configuration or handle; a call returns 0 only with all four stages done
\* and the configuration and both handles made.
C16_StagesInOrder ==
    \A t \in Threads :
        (th[t].op = "with_config" /\ th[t].pc # "fault") =>
            LET n == Len(th[t].stages)
            IN  /\ n \in 1..4
                /\ th[t].stages = SubSeq(StageOrder, 1, n)
                /\ th[t].pc = "done" =>
                      IF th[t].res.code = 0
                      THEN /\ n = 4
                           /\ IsSome(th[t].cfg) /\ IsSome(th[t].db) /\ IsSome(th[t].emb)
                      ELSE /\ th[t].res.code = -n
                           /\ ~IsSome(th[t].cfg) /\ ~IsSome(th[t].db) /\ ~IsSome(th[t].emb)
                /\ th[t].pc # "done" => n = 4

\* C16 witness: a with_config stopped at the third stage, the store, and
\* returned -3.
C16_Witness ==
    /\ th[1].op = "with_config" /\ th[1].pc = "done"
    /\ th[1].res.code = -3
    /\ th[1].stages = <<"decode", "parse", "connect">>

\* An embed returns a buffer in this step.
EmbedSucceeds == \E t \in Threads : Returns(t, "embed") /\ th'[t].res.ptr # 0

\* C17: a step in which an embed returns an identifier appends one record to
\* one table and leaves every other record as it was; every other step (of
\* with_config, query, free_cstring, cleanup, or of an embed that fails)
\* leaves every table as it was.
C17_RecordsOnlyCreated ==
    [][IF EmbedSucceeds
       THEN \E p \in DbPaths :
              /\ Len(disk'[p]) = Len(disk[p]) + 1
              /\ SubSeq(disk'[p], 1, Len(disk[p])) = disk[p]
              /\ \A q \in DbPaths \ {p} : disk'[q] = disk[q]
       ELSE disk' = disk]_vars

\* C18: a step in which an embed returns the null pointer adds no record.
C18_FailedEmbedAddsNothing ==
    [][\A t \in Threads :
          (Returns(t, "embed") /\ th'[t].res.ptr = 0) => disk' = disk]_vars

\* C19: whenever no call is in progress, DATABASE, EMBEDDER and CONFIG are all
\* set or all empty.
C19_AllOrNothing ==
    (~crashed /\ \A t \in Threads : th[t].pc \in {"idle", "done"})
        => Ready \/ Uninitialized

====
